---- MODULE Spec2Model ----
(***************************************************************************)
(* zgoubidoo: the beam distribution (commands/beam.py: Beam), the explicit *)
(* particle list (commands/objet.py: Objet2) and the parametric mappings   *)
(* a Beam registers.                                                       *)
(*                                                                         *)
(* A table is a record [kind, cols, rows]: kind names the Python value     *)
(* ("None", "DataFrame", "ndarray", "list", "raise", "ok"), cols the       *)
(* column labels (an ndarray has positional labels only) and rows the      *)
(* rows in order, each a tuple of numbers.  Coordinates are integers:      *)
(* the operations modelled only copy them, compare them with 0 or add 1.   *)
(* Slice counts are naturals; a source file is a table that pandas can     *)
(* parse or a missing file; Objet2.add is called with None, a 2-D array    *)
(* or a DataFrame.                                                         *)
(***************************************************************************)
EXTENDS Integers, Sequences, FiniteSets, TLC

VARIABLES
    distribution,   \* Beam._distribution
    slices,         \* Beam._slices
    SLICE,          \* Beam.SLICE, the active slice index
    REFERENCE,      \* Beam.REFERENCE
    b_cleared,      \* history: Beam.clear was called and no from_* call since
    PARTICULES,     \* Objet2._PARTICULES
    o_cleared,      \* history: Objet2.clear was called and no table added since
    o_supplied,     \* history: Objet2.add was called with a table
    axes,           \* the axes of a ParametricMapping
    ret             \* the last operation: [op, arg, out]

vars == <<distribution, slices, SLICE, REFERENCE, b_cleared,
          PARTICULES, o_cleared, o_supplied, axes, ret>>

beamVars == <<distribution, slices, SLICE, REFERENCE, b_cleared>>
objetVars == <<PARTICULES, o_cleared, o_supplied>>

----------------------------------------------------------------------------
(* Bounds of the model *)

\* largest n handed to from_file / from_5d_sigma_matrix / from_twiss_parameters
MaxN == 2
\* largest slice count
MaxSlices == 3
\* the active index ranges over -MaxIndex .. MaxIndex
MaxIndex == 3
\* rows of the 5-column source file
MaxFileRows == 4
\* largest number of rows an Objet2 is grown to
MaxParticules == 3
\* largest number of axes of a ParametricMapping, and of values of an axis
MaxAxes == 2
MaxValues == 3

----------------------------------------------------------------------------
(* Python values *)

NoneV == [kind |-> "None", cols |-> <<>>, rows |-> <<>>]
Ok == [kind |-> "ok", cols |-> <<>>, rows |-> <<>>]
Raise(exc) == [kind |-> "raise", cols |-> <<exc>>, rows |-> <<>>]
DataFrame(cols, rows) == [kind |-> "DataFrame", cols |-> cols, rows |-> rows]
RangeIndex(w) == [j \in 1..w |-> ToString(j - 1)]
ndarray(w, rows) == [kind |-> "ndarray", cols |-> RangeIndex(w), rows |-> rows]
List(items) == [kind |-> "list", cols |-> <<>>, rows |-> items]

IsRaise(v) == v.kind = "raise"
IsTable(v) == v.kind \in {"DataFrame", "ndarray"}

\* s[a:b] of Python for a sequence: negative bounds count from the end, and
\* bounds are clipped to the sequence
PyIndex(M, a) == IF a < 0 THEN (IF M + a < 0 THEN 0 ELSE M + a)
                 ELSE (IF a > M THEN M ELSE a)
PySlice(s, a, b) ==
    LET lo == PyIndex(Len(s), a)
        hi == PyIndex(Len(s), b)
    IN IF lo < hi THEN SubSeq(s, lo + 1, hi) ELSE <<>>

\* the "n" argument of a call: given or left at its default None
NoArg == [given |-> FALSE, n |-> 0]
Arg(n) == [given |-> TRUE, n |-> n]

EmptyBeam == "ZgoubidooBeamException: invalid number of particles"
InvalidTwiss == "ZgoubidooBeamException: Invalid argument for a twiss distribution"

CoordNames == <<"Y", "T", "Z", "P", "D">>
ParticuleNames == <<"Y", "T", "Z", "P", "X", "D", "IEX">>

----------------------------------------------------------------------------
(* Inputs *)

\* the j-th row the sampler draws from generator state g
Generators == {1, 2}
SampleRow(g, j) == <<40 * g + j, 50 * g + j, 60 * g + j, 70 * g + j, g + j>>

FileRow5(j) == <<j, j + 10, j + 20, j + 30, j - 1>>
FileRow7(j) == <<j, j + 10, j + 20, j + 30, 0, j, 1>>

Files == {"beam5.csv", "beam7.csv", "header.csv", "missing.csv"}

\* pd.read_csv(os.path.join(path, file))
read_csv(file) ==
    CASE file = "beam5.csv" -> DataFrame(CoordNames, [j \in 1..MaxFileRows |-> FileRow5(j)])
      [] file = "beam7.csv" -> DataFrame(ParticuleNames, <<FileRow7(1)>>)
      [] file = "header.csv" -> DataFrame(CoordNames, <<>>)
      [] OTHER -> Raise("FileNotFoundError")

\* keyword arguments of from_twiss_parameters
TwissKeys == {"X", "PX", "Y", "PY", "DPP", "DPPRMS", "BETAX", "ALPHAX",
              "BETAY", "ALPHAY", "EMITX", "EMITY"}

TwissInputs == {
    ("EMITX" :> 1) @@ ("EMITY" :> 1),
    ("BETAX" :> 2) @@ ("ALPHAX" :> 0) @@ ("EMITX" :> 1) @@ ("EMITY" :> 1),
    ("BETAX" :> 0) @@ ("EMITX" :> 1) @@ ("EMITY" :> 1),
    ("BETAY" :> 0) @@ ("EMITX" :> 1) @@ ("EMITY" :> 1),
    ("EMITX" :> 1),
    ("EMITY" :> 1),
    ("GAMMAX" :> 1) @@ ("EMITX" :> 1) @@ ("EMITY" :> 1),
    ("GAMMAX" :> 1) @@ ("BETAX" :> 0),
    ("BETAX" :> 3) @@ ("ALPHAX" :> 2) @@ ("EMITX" :> 2) @@ ("BETAY" :> 2)
        @@ ("ALPHAY" :> -1) @@ ("EMITY" :> 3) @@ ("DPPRMS" :> 2) @@ ("X" :> 1) }

\* the n of the calls of from_twiss_parameters: no row, one row
TwissRows == {0, 1}

Get(kwargs, k, default) == IF k \in DOMAIN kwargs THEN kwargs[k] ELSE default

----------------------------------------------------------------------------
(* Beam *)

\* Beam.generate_from_file without the limit n
generate_from_file_unlimited(file, n) == read_csv(file)

\* Beam.generate_from_file: pd.read_csv(...)[:n]
generate_from_file(file, n) ==
    LET t == read_csv(file)
    IN IF IsRaise(t) THEN t
       ELSE IF n.given THEN DataFrame(t.cols, PySlice(t.rows, 0, n.n))
       ELSE t

\* Beam.generate_from_5d_sigma_matrix followed by pd.DataFrame(...): the
\* sampler's draw is "sample", n rows of 5 coordinates
generate_from_5d_sigma_matrix(n, sample) == DataFrame(RangeIndex(5), sample)

\* Beam._initialize_distribution without the test of the row count
initialize_distribution_unchecked(cur, d, filename) ==
    LET loaded == IF d.kind # "None" THEN d
                  ELSE IF filename # "" THEN generate_from_file(filename, NoArg)
                  ELSE NoneV
    IN IF IsRaise(loaded) THEN [dist |-> cur, out |-> loaded]
       ELSE IF loaded.kind = "None" THEN [dist |-> cur, out |-> Ok]
       ELSE [dist |-> loaded, out |-> Ok]

\* Beam._initialize_distribution(distribution) on a Beam holding "cur":
\* [dist: the field afterwards, out: Ok or the exception]
initialize_distribution(cur, d, filename) ==
    LET loaded == IF d.kind # "None" THEN d
                  ELSE IF filename # "" THEN generate_from_file(filename, NoArg)
                  ELSE NoneV
    IN IF IsRaise(loaded) THEN [dist |-> cur, out |-> loaded]
       ELSE IF loaded.kind = "None" THEN [dist |-> cur, out |-> Ok]
       ELSE IF Len(loaded.rows) = 0
            THEN [dist |-> loaded, out |-> Raise(EmptyBeam)]
       ELSE [dist |-> loaded, out |-> Ok]

\* Beam.active_slice answering with the window of the index 0, as a view
\* kept from a read made before SLICE was set would
active_slice_first_window(dist, n, idx) ==
    IF dist.kind = "None" THEN NoneV
    ELSE IF n = 0 THEN Raise("ZeroDivisionError")
    ELSE LET d == PySlice(dist.rows, 0, Len(dist.rows) \div n)
         IN IF Len(dist.cols) # Len(CoordNames) THEN Raise("ValueError")
            ELSE IF Len(d) = 0 THEN NoneV
            ELSE DataFrame(CoordNames, d)

\* Beam.active_slice
active_slice(dist, n, idx) ==
    IF dist.kind = "None" THEN NoneV
    ELSE IF n = 0 THEN Raise("ZeroDivisionError")
    ELSE LET n_tot == Len(dist.rows)
             n_slices == n_tot \div n
             d == PySlice(dist.rows, idx * n_slices, (idx + 1) * n_slices)
         IN IF Len(dist.cols) # Len(CoordNames) THEN Raise("ValueError")
            ELSE IF Len(d) = 0 THEN NoneV
            ELSE DataFrame(CoordNames, d)

\* ParametricMapping(axes).combinations: the Cartesian product of the axes,
\* the first axis varying slowest
RECURSIVE combinations(_)
combinations(ax) ==
    IF ax = <<>> THEN << <<>> >>
    ELSE LET a == Head(ax)
             rest == combinations(Tail(ax))
             m == Len(rest)
         IN [c \in 1..(Len(a.values) * m) |->
                (a.name :> a.values[((c - 1) \div m) + 1]) @@ rest[((c - 1) % m) + 1]]

LABEL1 == "BEAM"

\* list(range(0, n))
range0(n) == [j \in 1..(IF n < 0 THEN 0 ELSE n) |-> j - 1]

\* Beam.mappings with the slice axis counted from 1
mappings_from_one(ref, n) ==
    IF ref = 1 THEN << (LABEL1 \o ".REFERENCE") :> 1 >>
    ELSE combinations(<< [name |-> LABEL1 \o ".SLICE",
                          values |-> [j \in 1..(IF n < 0 THEN 0 ELSE n) |-> j]] >>)

\* Beam.mappings without the test of REFERENCE
mappings_no_reference(ref, n) ==
    combinations(<< [name |-> LABEL1 \o ".SLICE", values |-> range0(n)] >>)

\* Beam.mappings
mappings(ref, n) ==
    IF ref = 1 THEN << (LABEL1 \o ".REFERENCE") :> 1 >>
    ELSE combinations(<< [name |-> LABEL1 \o ".SLICE", values |-> range0(n)] >>)

----------------------------------------------------------------------------
(* Beam operations *)

BeamDo(op, arg, out) ==
    /\ ret' = [op |-> op, arg |-> arg, out |-> out]
    /\ UNCHANGED axes

\* the arguments of a call that loads or samples: n (given or not), the
\* file, the keyword arguments
CallArg(n, src, kw) == [given |-> n.given, n |-> n.n, src |-> src, kw |-> kw]

\* Beam(distribution=d, slices=k) or Beam(filename=f, slices=k), bound to the
\* program's beam variable when the constructor returns
ConstructInputs == {NoneV, DataFrame(CoordNames, <<>>),
                    DataFrame(CoordNames, <<FileRow5(1), FileRow5(2)>>),
                    DataFrame(ParticuleNames, <<FileRow7(1)>>)}

Construct(d, f, k) ==
    LET r == initialize_distribution(NoneV, d, f)
    IN /\ IF IsRaise(r.out)
          THEN UNCHANGED beamVars
          ELSE /\ distribution' = r.dist
               /\ slices' = k
               /\ SLICE' = 0
               /\ REFERENCE' = 0
               /\ b_cleared' = FALSE
       /\ BeamDo("Beam", [given |-> d.kind # "None", n |-> Len(d.rows), src |-> f, kw |-> <<>>], r.out)
       /\ UNCHANGED objetVars

\* Beam.from_file
from_file(file, n) ==
    LET t == generate_from_file(file, n)
        r == initialize_distribution(distribution, t, "")
    IN /\ IF IsRaise(t)
          THEN /\ BeamDo("from_file", CallArg(n, file, <<>>), t)
               /\ UNCHANGED <<distribution, b_cleared>>
          ELSE /\ BeamDo("from_file", CallArg(n, file, <<>>), r.out)
               /\ distribution' = r.dist
               /\ b_cleared' = FALSE
       /\ UNCHANGED <<slices, SLICE, REFERENCE>>
       /\ UNCHANGED objetVars

\* the draws of the sampler for n rows
Samples(n) == {[j \in 1..n |-> SampleRow(g, j)] : g \in Generators}

\* Beam.from_5d_sigma_matrix
from_5d_sigma_matrix(n) ==
    \E sample \in Samples(n) :
        LET r == initialize_distribution(distribution,
                                         generate_from_5d_sigma_matrix(n, sample), "")
        IN /\ BeamDo("from_5d_sigma_matrix", CallArg(Arg(n), "", <<>>), r.out)
           /\ distribution' = r.dist
           /\ b_cleared' = FALSE
           /\ UNCHANGED <<slices, SLICE, REFERENCE>>
           /\ UNCHANGED objetVars

\* the result of a true division a / b and of the products made with it: a
\* fraction in lowest terms
RECURSIVE GCD(_, _)
GCD(a, b) == IF b = 0 THEN a ELSE GCD(b, a % b)
Abs(a) == IF a < 0 THEN -a ELSE a
Frac(a, b) ==
    LET g == GCD(Abs(a), Abs(b))
        sgn == IF b < 0 THEN -1 ELSE 1
    IN [num |-> sgn * (a \div g), den |-> sgn * (b \div g)]
Num(a) == [num |-> a, den |-> 1]
Mul(p, q) == Frac(p.num * q.num, p.den * q.den)

\* the keyword arguments from_twiss_parameters hands to
\* from_5d_sigma_matrix, with s12 = alpha * emit
twiss_kwargs_s12_positive(kwargs) ==
    LET betax == Get(kwargs, "BETAX", 1)
        alphax == Get(kwargs, "ALPHAX", 0)
        gammax == Frac(1 + alphax * alphax, betax)
        betay == Get(kwargs, "BETAY", 1)
        alphay == Get(kwargs, "ALPHAY", 0)
        gammay == Frac(1 + alphay * alphay, betay)
    IN [x |-> Num(Get(kwargs, "X", 0)), px |-> Num(Get(kwargs, "PX", 0)),
        y |-> Num(Get(kwargs, "Y", 0)), py |-> Num(Get(kwargs, "PY", 0)),
        dpp |-> Num(Get(kwargs, "DPP", 0)), dpprms |-> Num(Get(kwargs, "DPPRMS", 0)),
        s11 |-> Num(betax * kwargs["EMITX"]),
        s12 |-> Num(alphax * kwargs["EMITX"]),
        s22 |-> Mul(gammax, Num(kwargs["EMITX"])),
        s33 |-> Num(betay * kwargs["EMITY"]),
        s34 |-> Num(alphay * kwargs["EMITY"]),
        s44 |-> Mul(gammay, Num(kwargs["EMITY"]))]

\* the keyword arguments from_twiss_parameters hands to from_5d_sigma_matrix
twiss_kwargs(kwargs) ==
    LET betax == Get(kwargs, "BETAX", 1)
        alphax == Get(kwargs, "ALPHAX", 0)
        gammax == Frac(1 + alphax * alphax, betax)
        betay == Get(kwargs, "BETAY", 1)
        alphay == Get(kwargs, "ALPHAY", 0)
        gammay == Frac(1 + alphay * alphay, betay)
    IN [x |-> Num(Get(kwargs, "X", 0)), px |-> Num(Get(kwargs, "PX", 0)),
        y |-> Num(Get(kwargs, "Y", 0)), py |-> Num(Get(kwargs, "PY", 0)),
        dpp |-> Num(Get(kwargs, "DPP", 0)), dpprms |-> Num(Get(kwargs, "DPPRMS", 0)),
        s11 |-> Num(betax * kwargs["EMITX"]),
        s12 |-> Num((-alphax) * kwargs["EMITX"]),
        s22 |-> Mul(gammax, Num(kwargs["EMITX"])),
        s33 |-> Num(betay * kwargs["EMITY"]),
        s34 |-> Num((-alphay) * kwargs["EMITY"]),
        s44 |-> Mul(gammay, Num(kwargs["EMITY"]))]

\* the mean and the covariance matrix generate_from_5d_sigma_matrix hands to
\* the sampler for keyword arguments kw (matrix not given): the entries not
\* given are 0, the lower triangle mirrors the upper one, s55 = dpprms ** 2
sampler_arguments(kw) ==
    LET z == Num(0)
    IN [mean |-> <<kw.x, kw.px, kw.y, kw.py, kw.dpp>>,
        cov |-> << <<kw.s11, kw.s12, z, z, z>>,
                   <<kw.s12, kw.s22, z, z, z>>,
                   <<z, z, kw.s33, kw.s34, z>>,
                   <<z, z, kw.s34, kw.s44, z>>,
                   <<z, z, z, z, Mul(kw.dpprms, kw.dpprms)>> >>]

\* the divisors of the divisions (1 + alpha**2) / beta that
\* from_twiss_parameters performs, in order, up to the one that raises
twiss_divisions(kwargs) ==
    IF \E k \in DOMAIN kwargs : k \notin TwissKeys THEN <<>>
    ELSE IF Get(kwargs, "BETAX", 1) = 0 THEN <<0>>
    ELSE <<Get(kwargs, "BETAX", 1), Get(kwargs, "BETAY", 1)>>

\* from_twiss_parameters testing the keys after it computed the gammas and
\* the covariance entries
twiss_error_keys_last(kwargs) ==
    IF Get(kwargs, "BETAX", 1) = 0 THEN "ZeroDivisionError"
    ELSE IF Get(kwargs, "BETAY", 1) = 0 THEN "ZeroDivisionError"
    ELSE IF "EMITX" \notin DOMAIN kwargs THEN "KeyError"
    ELSE IF "EMITY" \notin DOMAIN kwargs THEN "KeyError"
    ELSE IF \E k \in DOMAIN kwargs : k \notin TwissKeys THEN InvalidTwiss
    ELSE ""

\* the exception from_twiss_parameters raises before it samples, "" if none
twiss_error(kwargs) ==
    IF \E k \in DOMAIN kwargs : k \notin TwissKeys THEN InvalidTwiss
    ELSE IF Get(kwargs, "BETAX", 1) = 0 THEN "ZeroDivisionError"
    ELSE IF Get(kwargs, "BETAY", 1) = 0 THEN "ZeroDivisionError"
    ELSE IF "EMITX" \notin DOMAIN kwargs THEN "KeyError"
    ELSE IF "EMITY" \notin DOMAIN kwargs THEN "KeyError"
    ELSE ""

\* Beam.from_twiss_parameters
from_twiss_parameters(n, kwargs) ==
    LET e == twiss_error(kwargs)
        a == CallArg(Arg(n), "", kwargs)
    IN IF e # ""
       THEN /\ BeamDo("from_twiss_parameters", a, Raise(e))
            /\ UNCHANGED beamVars
            /\ UNCHANGED objetVars
       ELSE \E sample \in Samples(n) :
            LET r == initialize_distribution(distribution,
                                             generate_from_5d_sigma_matrix(n, sample), "")
                sampler == sampler_arguments(twiss_kwargs(kwargs))
            IN /\ BeamDo("from_twiss_parameters", a @@ [sampler |-> sampler], r.out)
               /\ distribution' = r.dist
               /\ b_cleared' = FALSE
               /\ UNCHANGED <<slices, SLICE, REFERENCE>>
               /\ UNCHANGED objetVars

\* Beam.clear
BeamClearField == NoneV

BeamClear ==
    /\ distribution' = BeamClearField
    /\ b_cleared' = TRUE
    /\ BeamDo("Beam.clear", NoArg, Ok)
    /\ UNCHANGED <<slices, SLICE, REFERENCE>>
    /\ UNCHANGED objetVars

\* Beam.slices setter
SetSlices(n) ==
    /\ slices' = n
    /\ BeamDo("slices", Arg(n), Ok)
    /\ UNCHANGED <<distribution, SLICE, REFERENCE, b_cleared>>
    /\ UNCHANGED objetVars

\* assignment of the SLICE parameter
SetSLICE(i) ==
    /\ SLICE' = i
    /\ BeamDo("SLICE", Arg(i), Ok)
    /\ UNCHANGED <<distribution, slices, REFERENCE, b_cleared>>
    /\ UNCHANGED objetVars

\* assignment of the REFERENCE parameter
SetREFERENCE(r) ==
    /\ REFERENCE' = r
    /\ BeamDo("REFERENCE", Arg(r), Ok)
    /\ UNCHANGED <<distribution, slices, SLICE, b_cleared>>
    /\ UNCHANGED objetVars

\* a read of Beam.active_slice that keeps the window as the distribution
ReadActiveSlice_stores_view ==
    LET v == active_slice(distribution, slices, SLICE)
    IN /\ BeamDo("active_slice", NoArg, v)
       /\ distribution' = IF IsTable(v) THEN v ELSE distribution
       /\ UNCHANGED <<slices, SLICE, REFERENCE, b_cleared>>
       /\ UNCHANGED objetVars

\* a read of Beam.active_slice
ReadActiveSlice ==
    /\ BeamDo("active_slice", NoArg, active_slice(distribution, slices, SLICE))
    /\ UNCHANGED beamVars
    /\ UNCHANGED objetVars

\* a read of Beam.distribution
ReadDistribution ==
    /\ BeamDo("distribution", NoArg, distribution)
    /\ UNCHANGED beamVars
    /\ UNCHANGED objetVars

\* a read of Beam.mappings
ReadMappings ==
    /\ BeamDo("mappings", NoArg, List(mappings(REFERENCE, slices)))
    /\ UNCHANGED beamVars
    /\ UNCHANGED objetVars

----------------------------------------------------------------------------
(* Objet2 *)

\* operations of a DataFrame used by Objet2.add
ColIndex(cols, name) == CHOOSE j \in 1..Len(cols) : cols[j] = name

\* df[name] = value
SetColumn(df, name, value) ==
    IF \E j \in 1..Len(df.cols) : df.cols[j] = name
    THEN DataFrame(df.cols,
                   [i \in 1..Len(df.rows) |->
                       [df.rows[i] EXCEPT ![ColIndex(df.cols, name)] = value]])
    ELSE DataFrame(Append(df.cols, name),
                   [i \in 1..Len(df.rows) |-> Append(df.rows[i], value)])

\* df[name] += value
AddToColumn(df, name, value) ==
    DataFrame(df.cols,
              [i \in 1..Len(df.rows) |->
                  [df.rows[i] EXCEPT ![ColIndex(df.cols, name)] = @ + value]])

\* df[names].values
SelectValues(df, names) ==
    ndarray(Len(names),
            [i \in 1..Len(df.rows) |->
                [j \in 1..Len(names) |-> df.rows[i][ColIndex(df.cols, names[j])]]])

\* Objet2.add's columns without the shift of D
add_columns_no_shift(p) ==
    SetColumn(SetColumn(p, "X", 0), "IEX", 1)

\* the table Objet2.add leaves in the variable p for the columns (Y,T,Z,P,D)
add_columns(p) ==
    AddToColumn(SetColumn(SetColumn(p, "X", 0), "IEX", 1), "D", 1)

\* the object the caller passed to Objet2.add, after the call: add works on
\* p.copy()
add_caller_table(p) == p

\* np.append(arr, values, axis=0)
np_append(arr, values) ==
    IF ~IsTable(values) THEN Raise("ValueError")
    ELSE IF Len(values.cols) # Len(arr.cols) THEN Raise("ValueError")
    ELSE ndarray(Len(arr.cols), arr.rows \o values.rows)

\* Objet2.add(p) on an object whose _PARTICULES is "field":
\* [field: _PARTICULES afterwards, caller: the caller's p afterwards, out]
add(field, p) ==
    IF field.kind = "None"
    THEN IF p.kind # "DataFrame"
         THEN [field |-> p, caller |-> p, out |-> Ok]
         ELSE IF p.cols = CoordNames
         THEN [field |-> SelectValues(add_columns(p), ParticuleNames),
               caller |-> add_caller_table(p), out |-> Ok]
         ELSE [field |-> field, caller |-> p, out |-> Ok]
    ELSE LET a == np_append(field, p)
         IN IF IsRaise(a) THEN [field |-> field, caller |-> p, out |-> a]
            ELSE [field |-> a, caller |-> p, out |-> Ok]

\* the default array with D left at 0
DefaultParticules_zero == ndarray(7, << <<0, 0, 0, 0, 0, 0, 1>> >>)

\* the array Objet2.PARTICULES builds when nothing is stored
DefaultParticules == ndarray(7, << <<0, 0, 0, 0, 0, 1, 1>> >>)

\* the property Objet2.PARTICULES: [field: _PARTICULES afterwards, out]
PARTICULES_get(field) ==
    IF field.kind = "list"
    THEN IF Len(field.rows) = 7
         THEN [field |-> ndarray(7, <<field.rows>>), out |-> ndarray(7, <<field.rows>>)]
         ELSE [field |-> field, out |-> Raise("ValueError")]
    ELSE IF field.kind = "None"
    THEN [field |-> DefaultParticules, out |-> DefaultParticules]
    ELSE [field |-> field, out |-> field]

\* Objet2.clear leaving the particles in place
clear_field_kept == PARTICULES

\* the value Objet2.clear stores
clear_field == NoneV

IntV(n) == [kind |-> "int", cols |-> <<>>, rows |-> <<n>>]

\* Beam.objet adding the active slice to an object that already holds the
\* particles of an earlier read
objet_accumulating(dist, n, idx) ==
    LET v == active_slice(dist, n, idx)
        earlier == add(NoneV, v).field
    IN IF IsRaise(v) THEN [field |-> NoneV, out |-> v]
       ELSE [field |-> add(earlier, v).field, out |-> add(earlier, v).out]

\* Beam.objet: a new Objet2 (nothing stored) to which the active slice is
\* added; [field: the _PARTICULES of the new object, out: Ok or the exception]
objet(dist, n, idx) ==
    LET v == active_slice(dist, n, idx)
    IN IF IsRaise(v) THEN [field |-> NoneV, out |-> v]
       ELSE [field |-> add(NoneV, v).field, out |-> add(NoneV, v).out]

\* the particles the object returned by Beam.objet holds, as its PARTICULES
\* property reports them
objet_PARTICULES(dist, n, idx) ==
    LET o == objet(dist, n, idx)
    IN IF IsRaise(o.out) THEN o.out ELSE PARTICULES_get(o.field).out

\* the text of an object description, by what it states: IMAX, and per
\* particle the 6 coordinates and its IEX
Str(imax, rows) == [kind |-> "str", cols |-> <<ToString(imax)>>, rows |-> rows]

\* Objet2.__str__ of an object whose _PARTICULES is "field"
Objet2_str(field) ==
    LET r == PARTICULES_get(field)
    IN IF IsRaise(r.out) THEN r.out
       ELSE Str(Len(r.out.rows),
                [i \in 1..Len(r.out.rows) |->
                    [j \in 1..7 |-> r.out.rows[i][j]]])

\* Beam.__str__ rendering the object without clearing it in reference mode
Beam_str_no_clear(ref, dist, n, idx) ==
    LET o == objet(dist, n, idx)
    IN IF IsRaise(o.out) THEN o.out ELSE Objet2_str(o.field)

\* Beam.__str__: str(self.objet.clear()) with REFERENCE = 1, else
\* str(self.objet)
Beam_str(ref, dist, n, idx) ==
    LET o == objet(dist, n, idx)
    IN IF IsRaise(o.out) THEN o.out
       ELSE IF ref = 1 THEN Objet2_str(NoneV)
       ELSE Objet2_str(o.field)

----------------------------------------------------------------------------
(* Objet2 operations *)

Row5a == <<1, 2, 3, 4, 0>>
Row5b == <<5, 6, 7, 8, 1>>
Row7a == <<9, 9, 9, 9, 9, 2, 1>>

\* what a caller hands to Objet2.add
AddInputs == {NoneV,
              ndarray(7, <<Row7a>>),
              ndarray(5, <<Row5a>>),
              DataFrame(CoordNames, <<Row5a>>),
              DataFrame(CoordNames, <<Row5b, Row5a>>),
              DataFrame(RangeIndex(5), <<Row5b>>)}

ObjetDo(op, p, caller, old, out) ==
    /\ ret' = [op |-> op, arg |-> [p |-> p, caller |-> caller, old |-> old], out |-> out]
    /\ UNCHANGED axes

\* Objet2.add / Objet2.__iadd__
Add(p) ==
    LET r == add(PARTICULES, p)
    IN /\ Len(PARTICULES.rows) + Len(p.rows) <= MaxParticules
       /\ PARTICULES' = r.field
       /\ o_cleared' = (o_cleared /\ p.kind = "None")
       /\ o_supplied' = (o_supplied \/ p.kind # "None")
       /\ ObjetDo("add", p, r.caller, PARTICULES, r.out)
       /\ UNCHANGED beamVars

\* Objet2.clear
ObjetClear ==
    /\ PARTICULES' = clear_field
    /\ o_cleared' = TRUE
    /\ o_supplied' = o_supplied
    /\ ObjetDo("Objet2.clear", NoneV, NoneV, PARTICULES, Ok)
    /\ UNCHANGED beamVars

\* a read of Objet2.PARTICULES
ReadPARTICULES ==
    LET r == PARTICULES_get(PARTICULES)
    IN /\ PARTICULES' = r.field
       /\ ObjetDo("PARTICULES", NoneV, NoneV, PARTICULES, r.out)
       /\ UNCHANGED <<o_cleared, o_supplied>>
       /\ UNCHANGED beamVars

\* a read of Objet2.IMAX
ReadIMAX ==
    LET r == PARTICULES_get(PARTICULES)
    IN /\ PARTICULES' = r.field
       /\ ObjetDo("IMAX", NoneV, NoneV, PARTICULES,
                  IF IsRaise(r.out) THEN r.out ELSE IntV(Len(r.out.rows)))
       /\ UNCHANGED <<o_cleared, o_supplied>>
       /\ UNCHANGED beamVars

----------------------------------------------------------------------------
(* Beam operations that build an Objet2 *)

\* a read of Beam.objet, and of the particles of the object it returns
ReadObjet ==
    /\ BeamDo("objet", NoArg, objet_PARTICULES(distribution, slices, SLICE))
    /\ UNCHANGED beamVars
    /\ UNCHANGED objetVars

\* str(beam)
ReadStr ==
    /\ BeamDo("str", NoArg, Beam_str(REFERENCE, distribution, slices, SLICE))
    /\ UNCHANGED beamVars
    /\ UNCHANGED objetVars

----------------------------------------------------------------------------
(* ParametricMapping operations *)

AxisNames == {"A", "B", "C"}
ValueLists == {[j \in 1..m |-> j] : m \in 0..MaxValues} \cup {<<2, 1>>}
Axis == [name : AxisNames, values : ValueLists]

\* the axes a ParametricMapping is built with: distinct names, in any order
AxesInputs ==
    {ax \in UNION {[1..m -> Axis] : m \in 0..MaxAxes} :
        \A i, j \in 1..Len(ax) : i # j => ax[i].name # ax[j].name}

\* a read of ParametricMapping.combinations
Expand ==
    /\ ret' = [op |-> "combinations", arg |-> NoArg, out |-> List(combinations(axes))]
    /\ UNCHANGED axes
    /\ UNCHANGED beamVars
    /\ UNCHANGED objetVars

----------------------------------------------------------------------------

InitObjects ==
    /\ distribution = NoneV
    /\ slices = 1
    /\ SLICE = 0
    /\ REFERENCE = 0
    /\ b_cleared = FALSE
    /\ PARTICULES = NoneV
    /\ o_cleared = FALSE
    /\ o_supplied = FALSE
    /\ ret = [op |-> "init", arg |-> NoArg, out |-> Ok]

Init ==
    /\ InitObjects
    /\ axes = <<>>

Next ==
    \/ \E d \in ConstructInputs, k \in 1..MaxSlices : Construct(d, "", k)
    \/ \E f \in Files, k \in 1..MaxSlices : Construct(NoneV, f, k)
    \/ \E f \in Files, n \in {NoArg} \cup {Arg(m) : m \in 0..MaxN} : from_file(f, n)
    \/ \E n \in 0..MaxN : from_5d_sigma_matrix(n)
    \/ \E n \in TwissRows, kw \in TwissInputs : from_twiss_parameters(n, kw)
    \/ BeamClear
    \/ \E n \in 0..MaxSlices : SetSlices(n)
    \/ \E i \in (-MaxIndex)..MaxIndex : SetSLICE(i)
    \/ \E r \in {0, 1} : SetREFERENCE(r)
    \/ ReadActiveSlice
    \/ ReadDistribution
    \/ ReadMappings
    \/ ReadObjet
    \/ ReadStr

Spec == Init /\ [][Next]_vars

\* the two population stores: an Objet2 and the distribution of a Beam
NextStore ==
    \/ \E p \in AddInputs : Add(p)
    \/ ObjetClear
    \/ ReadPARTICULES
    \/ ReadIMAX
    \/ \E n \in 0..MaxN : from_5d_sigma_matrix(n)
    \/ BeamClear
    \/ ReadDistribution
    \/ ReadActiveSlice

SpecStore == Init /\ [][NextStore]_vars

\* the mappings: a ParametricMapping, and the one a Beam builds
InitExpand ==
    /\ InitObjects
    /\ axes \in AxesInputs

NextExpand ==
    \/ Expand
    \/ \E n \in 0..MaxSlices : SetSlices(n)
    \/ \E r \in {0, 1} : SetREFERENCE(r)
    \/ ReadMappings

SpecExpand == InitExpand /\ [][NextExpand]_vars

----------------------------------------------------------------------------
(* Properties *)

\* the rows [i*n, (i+1)*n) of a population, n = floor(M / k)
Window(rows, k, i) ==
    SubSeq(rows, i * (Len(rows) \div k) + 1, (i + 1) * (Len(rows) \div k))

\* C1: for a stored population of M rows and a slice count k >= 1, the
\* active slice for every index i in [0, k) is returned and holds exactly
\* the rows [i*floor(M/k), (i+1)*floor(M/k)) of the population, in order
\* (so the slices are disjoint, cover the first k*floor(M/k) rows and leave
\* the M mod k last rows out).
C1_PartitionLaw ==
    (distribution.kind = "DataFrame" /\ slices >= 1) =>
        \A i \in 0..(slices - 1) :
            LET v == active_slice(distribution, slices, i)
            IN /\ ~IsRaise(v)
               /\ v.rows = Window(distribution.rows, slices, i)

\* The partition law for the populations active_slice can relabel, those of
\* 5 columns: slice i is the window, and the slices in order make up the
\* first k*floor(M/k) rows.
RECURSIVE Concat(_, _, _)
Concat(dist, k, i) ==
    IF i = 0 THEN <<>>
    ELSE Concat(dist, k, i - 1) \o active_slice(dist, k, i - 1).rows

PartitionLaw5 ==
    (distribution.kind = "DataFrame" /\ slices >= 1
        /\ Len(distribution.cols) = 5) =>
        /\ \A i \in 0..(slices - 1) :
              LET v == active_slice(distribution, slices, i)
              IN /\ ~IsRaise(v)
                 /\ v.rows = Window(distribution.rows, slices, i)
        /\ Concat(distribution, slices, slices)
              = SubSeq(distribution.rows, 1,
                       slices * (Len(distribution.rows) \div slices))

RECURSIVE Prod(_, _)
\* the product of the lengths of the axes from the j-th on
Prod(ax, j) == IF j > Len(ax) THEN 1 ELSE Len(ax[j].values) * Prod(ax, j + 1)

\* C2: the combinations of a ParametricMapping are the Cartesian product of
\* its axes in row-major order: as many mappings as the product of the axes'
\* lengths, each assigning one value to exactly the registered names, the
\* first axis varying slowest and each axis in the order of its values; and
\* a Beam with REFERENCE # 1 and k slices maps to exactly the k mappings
\* {LABEL1.SLICE: i}, i = 0..k-1, in that order.
C2_CartesianProduct ==
    /\ ret.op = "combinations" =>
          LET out == ret.out.rows
          IN /\ Len(out) = Prod(axes, 1)
             /\ \A c \in 1..Len(out) :
                   /\ DOMAIN out[c] = {axes[j].name : j \in 1..Len(axes)}
                   /\ \A j \in 1..Len(axes) :
                         out[c][axes[j].name] =
                            axes[j].values[(((c - 1) \div Prod(axes, j + 1))
                                               % Len(axes[j].values)) + 1]
    /\ (ret.op = "mappings" /\ REFERENCE # 1) =>
          /\ Len(ret.out.rows) = slices
          /\ \A i \in 0..(slices - 1) :
                ret.out.rows[i + 1] = ((LABEL1 \o ".SLICE") :> i)

C2_Witness ==
    /\ ret.op = "combinations"
    /\ axes = << [name |-> "A", values |-> <<1, 2, 3>>],
                 [name |-> "B", values |-> <<2, 1>>] >>
    /\ Len(ret.out.rows) = 6
    /\ ret.out.rows[2] = ("A" :> 1) @@ ("B" :> 1)
    /\ ret.out.rows[3] = ("A" :> 2) @@ ("B" :> 2)

\* C3: with REFERENCE = 1, Beam.mappings is the single mapping
\* {LABEL1.REFERENCE: 1}, whatever the slice count and the distribution.
C3_ReferenceShortCircuit ==
    (ret.op = "mappings" /\ REFERENCE = 1) =>
        ret.out = List(<< (LABEL1 \o ".REFERENCE") :> 1 >>)

C3_Witness ==
    /\ ret.op = "mappings" /\ REFERENCE = 1
    /\ slices = 3
    /\ distribution.kind = "DataFrame" /\ Len(distribution.rows) = 2

\* C4: Objet2.add of a table with the columns (Y,T,Z,P,D) to an object that
\* stores nothing stores one row (Y, T, Z, P, 0, D+1, 1) of 7 columns per
\* row of the table, in the table's order, and leaves the caller's table as
\* it was.
C4_ForeignIngestion ==
    (ret.op = "add" /\ ret.arg.old.kind = "None"
        /\ ret.arg.p.kind = "DataFrame" /\ ret.arg.p.cols = CoordNames) =>
        /\ ret.out = Ok
        /\ PARTICULES.kind = "ndarray"
        /\ Len(PARTICULES.cols) = 7
        /\ PARTICULES.rows =
              [i \in 1..Len(ret.arg.p.rows) |->
                  LET r == ret.arg.p.rows[i]
                  IN <<r[1], r[2], r[3], r[4], 0, r[5] + 1, 1>>]
        /\ ret.arg.caller = ret.arg.p

C4_Witness ==
    /\ ret.op = "add" /\ ret.arg.old.kind = "None"
    /\ ret.arg.p = DataFrame(CoordNames, <<Row5b, Row5a>>)
    /\ PARTICULES.rows = << <<5, 6, 7, 8, 0, 2, 1>>, <<1, 2, 3, 4, 0, 1, 1>> >>

\* the keyword arguments from_twiss_parameters needs and accepts
WellFormedTwiss(kw) ==
    /\ DOMAIN kw \subseteq TwissKeys
    /\ {"EMITX", "EMITY"} \subseteq DOMAIN kw
    /\ Get(kw, "BETAX", 1) # 0
    /\ Get(kw, "BETAY", 1) # 0

\* C5: from_file of an existing file with n = 0 or with no rows,
\* from_5d_sigma_matrix and from_twiss_parameters with n = 0, and the
\* construction of a Beam from a distribution or a file of zero rows, all
\* raise the ZgoubidooBeamException for an invalid number of particles.
C5_ZeroRowsRejected ==
    /\ (ret.op = "from_file" /\ ret.arg.src # "missing.csv"
          /\ ((ret.arg.given /\ ret.arg.n = 0) \/ ret.arg.src = "header.csv"))
          => ret.out = Raise(EmptyBeam)
    /\ (ret.op = "from_5d_sigma_matrix" /\ ret.arg.n = 0)
          => ret.out = Raise(EmptyBeam)
    /\ (ret.op = "from_twiss_parameters" /\ ret.arg.n = 0
          /\ WellFormedTwiss(ret.arg.kw))
          => ret.out = Raise(EmptyBeam)
    /\ (ret.op = "Beam"
          /\ ((ret.arg.given /\ ret.arg.n = 0) \/ ret.arg.src = "header.csv"))
          => ret.out = Raise(EmptyBeam)

C5_Witness ==
    /\ ret.op = "from_twiss_parameters" /\ ret.arg.n = 0
    /\ WellFormedTwiss(ret.arg.kw)
    /\ ret.out = Raise(EmptyBeam)

\* C6: the distribution a Beam stores is absent or has at least one row, in
\* every state, also after a call that raised.
C6_RowCountInvariant ==
    distribution.kind = "None" \/ Len(distribution.rows) >= 1

\* C7: a read of the particles of an Objet2 to which no table was ever
\* added gives exactly one row of 7 columns, (0, 0, 0, 0, 0, 1, 1), which
\* is then what the object stores, and IMAX is 1.
C7_LazyDefault ==
    /\ (ret.op = "PARTICULES" /\ ~o_supplied) =>
          /\ ret.out.kind = "ndarray"
          /\ Len(ret.out.cols) = 7
          /\ ret.out.rows = << <<0, 0, 0, 0, 0, 1, 1>> >>
          /\ PARTICULES = ret.out
    /\ (ret.op = "IMAX" /\ ~o_supplied) => ret.out = IntV(1)

C7_Witness ==
    /\ ret.op = "PARTICULES" /\ ~o_supplied /\ ~o_cleared
    /\ ret.arg.old.kind = "None"
    /\ ret.out.rows = << <<0, 0, 0, 0, 0, 1, 1>> >>

\* C8 as stated: after clear, every read of the store reports no
\* population until data is supplied again.
C8_ReadsReportNoPopulation ==
    /\ (b_cleared /\ ret.op \in {"distribution", "active_slice"})
          => ret.out.kind = "None"
    /\ (o_cleared /\ ret.op = "PARTICULES") => ret.out.kind = "None"

\* C8, amended: clear leaves the store as it is after construction; until
\* data is supplied again a read of the Beam's distribution or active slice
\* reports None, and a read of the Objet2 reports the default single row
\* (0, 0, 0, 0, 0, 1, 1), never a row held before the clear.
C8_ClearResets ==
    /\ ret.op = "Beam.clear" => distribution = NoneV
    /\ ret.op = "Objet2.clear" => PARTICULES = NoneV
    /\ b_cleared =>
          /\ distribution = NoneV
          /\ ret.op \in {"distribution", "active_slice"} => ret.out = NoneV
    /\ o_cleared =>
          /\ PARTICULES.kind = "None"
                \/ PARTICULES.rows = << <<0, 0, 0, 0, 0, 1, 1>> >>
          /\ ret.op = "PARTICULES" =>
                /\ ret.out.kind = "ndarray"
                /\ ret.out.rows = << <<0, 0, 0, 0, 0, 1, 1>> >>
          /\ ret.op = "IMAX" => ret.out = IntV(1)

C8_Witness ==
    /\ o_cleared /\ o_supplied /\ b_cleared
    /\ ret.op = "PARTICULES"
    /\ Len(ret.arg.old.rows) = 0
    /\ ret.out.rows = << <<0, 0, 0, 0, 0, 1, 1>> >>

\* C9: Objet2.add of a table with the columns (Y,T,Z,P,D) to an object that
\* already stores rows succeeds and leaves the stored rows followed by one
\* row (Y, T, Z, P, 0, D+1, 1) per row of the table.
C9_AppendNormalizes ==
    (ret.op = "add" /\ IsTable(ret.arg.old)
        /\ ret.arg.p.kind = "DataFrame" /\ ret.arg.p.cols = CoordNames) =>
        /\ ret.out = Ok
        /\ PARTICULES.rows = ret.arg.old.rows \o
              [i \in 1..Len(ret.arg.p.rows) |->
                  LET r == ret.arg.p.rows[i]
                  IN <<r[1], r[2], r[3], r[4], 0, r[5] + 1, 1>>]

\* C10: when the slice count exceeds the number of rows, or no distribution
\* is stored, active_slice is None for every active index and does not raise.
C10_EmptyWindowIsNoData ==
    (distribution.kind = "None" \/ slices > Len(distribution.rows)) =>
        \A i \in (-MaxIndex)..MaxIndex :
            active_slice(distribution, slices, i) = NoneV

\* the same for the populations active_slice can relabel, those of 5 columns
EmptyWindowIsNoData5 ==
    (distribution.kind = "None"
        \/ (slices > Len(distribution.rows) /\ Len(distribution.cols) = 5)) =>
        \A i \in (-MaxIndex)..MaxIndex :
            active_slice(distribution, slices, i) = NoneV

\* C11: for a stored population of more than 5 columns (such as
\* Y,T,Z,P,X,D,IEX) and a slice count k >= 1, active_slice does not fail and
\* returns, when the window has rows, a table of exactly the 5 columns
\* Y,T,Z,P,D.
C11_ExtraColumnsDropped ==
    (distribution.kind = "DataFrame" /\ Len(distribution.cols) > 5
        /\ slices >= 1) =>
        \A i \in 0..(slices - 1) :
            LET v == active_slice(distribution, slices, i)
            IN /\ ~IsRaise(v)
               /\ v.kind = "DataFrame" => v.cols = CoordNames

\* C12: a call of from_twiss_parameters with a keyword outside the 12
\* accepted names raises the invalid-argument ZgoubidooBeamException
\* whatever the other keywords are (no gamma is computed, no covariance
\* entry is read, no sample is drawn), and the Beam stores after the call
\* what it stored before it.
C12_InvalidKeyFailsFast ==
    [][(ret'.op = "from_twiss_parameters"
          /\ \E k \in DOMAIN ret'.arg.kw : k \notin TwissKeys) =>
            /\ ret'.out = Raise(InvalidTwiss)
            /\ twiss_divisions(ret'.arg.kw) = <<>>
            /\ distribution' = distribution]_vars

C12_Witness ==
    /\ ret.op = "from_twiss_parameters"
    /\ ret.arg.kw = ("GAMMAX" :> 1) @@ ("BETAX" :> 0)
    /\ ret.out = Raise(InvalidTwiss)
    /\ distribution.kind = "DataFrame" /\ Len(distribution.rows) = 2

\* C13: the covariance matrix from_twiss_parameters hands to the sampler
\* has, for each plane (X: rows 1-2, Y: rows 3-4) with beta, alpha, emit,
\* the position variance beta*emit, the angle variance
\* ((1 + alpha^2)/beta)*emit and both off-diagonal entries -alpha*emit;
\* every entry coupling the X plane, the Y plane and the momentum is 0, and
\* the (5,5) entry is DPPRMS^2.
C13_TwissCovariance ==
    (ret.op = "from_twiss_parameters" /\ "sampler" \in DOMAIN ret.arg) =>
        LET kw == ret.arg.kw
            m == ret.arg.sampler.cov
            Plane(o, beta, alpha, emit) ==
                /\ m[o + 1][o + 1] = Num(beta * emit)
                /\ m[o + 2][o + 2] = Frac((1 + alpha * alpha) * emit, beta)
                /\ m[o + 1][o + 2] = Num(-(alpha * emit))
                /\ m[o + 2][o + 1] = Num(-(alpha * emit))
        IN /\ Plane(0, Get(kw, "BETAX", 1), Get(kw, "ALPHAX", 0), kw["EMITX"])
           /\ Plane(2, Get(kw, "BETAY", 1), Get(kw, "ALPHAY", 0), kw["EMITY"])
           /\ \A i \in 1..2, j \in 3..4 : m[i][j] = Num(0) /\ m[j][i] = Num(0)
           /\ \A i \in 1..4 : m[i][5] = Num(0) /\ m[5][i] = Num(0)
           /\ m[5][5] = Num(Get(kw, "DPPRMS", 0) * Get(kw, "DPPRMS", 0))

C13_Witness ==
    /\ ret.op = "from_twiss_parameters" /\ "sampler" \in DOMAIN ret.arg
    /\ Get(ret.arg.kw, "BETAX", 1) = 3 /\ Get(ret.arg.kw, "ALPHAX", 0) = 2
    /\ ret.arg.sampler.cov[2][2] = [num |-> 10, den |-> 3]
    /\ ret.arg.sampler.cov[3][4] = [num |-> 3, den |-> 1]
    /\ ret.arg.sampler.cov[5][5] = [num |-> 4, den |-> 1]
    /\ ret.out = Ok

\* C14: from_twiss_parameters never divides (1 + alpha^2) by a beta of 0: no
\* division it performs has the divisor 0, and no call ends in a
\* ZeroDivisionError.
C14_BetaNeverZero ==
    ret.op = "from_twiss_parameters" =>
        /\ \A j \in 1..Len(twiss_divisions(ret.arg.kw)) :
              twiss_divisions(ret.arg.kw)[j] # 0
        /\ ret.out # Raise("ZeroDivisionError")

\* C15: generate_from_file and from_file of an existing source of R rows
\* with a limit n >= 1 keep exactly the first min(n, R) rows in source
\* order, and all R rows when n > R or n is not given; n exceeding R raises
\* no error (the only error of such a from_file call is the one for a
\* source without rows).
C15_RowLimit ==
    /\ \A f \in Files \ {"missing.csv"}, n \in 1..(MaxFileRows + 1) :
          LET src == read_csv(f)
          IN /\ generate_from_file(f, Arg(n)) =
                   DataFrame(src.cols,
                             SubSeq(src.rows, 1,
                                    IF n < Len(src.rows) THEN n ELSE Len(src.rows)))
             /\ generate_from_file(f, NoArg) = src
    /\ (ret.op = "from_file" /\ ret.arg.src # "missing.csv"
          /\ (~ret.arg.given \/ ret.arg.n >= 1)) =>
          LET src == read_csv(ret.arg.src)
              R == Len(src.rows)
              kept == IF ret.arg.given /\ ret.arg.n < R THEN ret.arg.n ELSE R
          IN /\ distribution = DataFrame(src.cols, SubSeq(src.rows, 1, kept))
             /\ ret.out = IF R = 0 THEN Raise(EmptyBeam) ELSE Ok

C15_Witness ==
    /\ ret.op = "from_file" /\ ret.arg.src = "beam7.csv"
    /\ ret.arg.given /\ ret.arg.n = 2
    /\ ret.out = Ok
    /\ distribution.rows = <<FileRow7(1)>>

\* C16: a read of Beam.active_slice or of Beam.objet, repeated any number
\* of times, leaves the distribution the Beam stores (rows, their order and
\* values, column labels), its slice count and its active index as they
\* were, whether the read returns a table, None or raises.
C16_SliceReadOnly ==
    [][ret'.op \in {"active_slice", "objet"} =>
          /\ distribution' = distribution
          /\ slices' = slices
          /\ SLICE' = SLICE]_vars

C16_Witness ==
    /\ ret.op = "objet"
    /\ ret.out = ndarray(7, << <<42, 52, 62, 72, 0, 4, 1>> >>)
    /\ distribution = DataFrame(RangeIndex(5), <<SampleRow(1, 1), SampleRow(1, 2)>>)
    /\ slices = 2 /\ SLICE = 1

\* the rows iloc[i*n : (i+1)*n] selects from the distribution stored now,
\* for the slice count and the active index set now, n = floor(M / slices)
CurrentRows ==
    PySlice(distribution.rows, SLICE * (Len(distribution.rows) \div slices),
            (SLICE + 1) * (Len(distribution.rows) \div slices))

\* C17: whatever calls of the slices setter, assignments of SLICE and
\* from_file / from_5d_sigma_matrix / from_twiss_parameters / clear came
\* before it, a read of active_slice answers from the distribution, the
\* slice count and the active index of the moment of the read: None when
\* nothing is stored or the rows selected now are none, else the rows
\* selected now under the labels Y,T,Z,P,D.
C17_ViewNeverCached ==
    ret.op = "active_slice" =>
        IF distribution.kind = "None" THEN ret.out = NoneV
        ELSE IF slices = 0 THEN ret.out = Raise("ZeroDivisionError")
        ELSE IF Len(distribution.cols) # 5 THEN ret.out = Raise("ValueError")
        ELSE IF CurrentRows = <<>> THEN ret.out = NoneV
        ELSE ret.out = DataFrame(CoordNames, CurrentRows)

C17_Witness ==
    /\ ret.op = "active_slice"
    /\ slices = 2 /\ SLICE = 1
    /\ distribution = DataFrame(CoordNames, [j \in 1..MaxFileRows |-> FileRow5(j)])
    /\ ret.out.rows = <<FileRow5(3), FileRow5(4)>>

\* C18: for an Objet2 to which no data was supplied before, add of a table
\* (an array, or a DataFrame of the columns Y,T,Z,P,D) succeeds and leaves
\* exactly the supplied rows as the population (the array's rows, or one row
\* (Y, T, Z, P, 0, D+1, 1) per row of the DataFrame), whether or not the
\* particles were read before the add.
C18_ReadDoesNotChangeAppend ==
    [][(ret'.op = "add" /\ ~o_supplied
          /\ (ret'.arg.p.kind = "ndarray"
                \/ (ret'.arg.p.kind = "DataFrame" /\ ret'.arg.p.cols = CoordNames))) =>
            /\ ret'.out = Ok
            /\ PARTICULES'.rows =
                  IF ret'.arg.p.kind = "ndarray" THEN ret'.arg.p.rows
                  ELSE [i \in 1..Len(ret'.arg.p.rows) |->
                           LET r == ret'.arg.p.rows[i]
                           IN <<r[1], r[2], r[3], r[4], 0, r[5] + 1, 1>>]]_vars

\* C19: for a population of M rows and a slice count k >= 1, active_slice
\* with any integer active index (negative and >= k included) returns
\* either None or exactly floor(M/k) consecutive rows taken from the first
\* k*floor(M/k) rows: never a row of the remainder, never a shorter window.
C19_RemainderUnreachable ==
    (distribution.kind = "DataFrame" /\ slices >= 1) =>
        \A i \in (-MaxIndex)..MaxIndex :
            LET v == active_slice(distribution, slices, i)
                per == Len(distribution.rows) \div slices
            IN \/ IsRaise(v)
               \/ v = NoneV
               \/ /\ v.kind = "DataFrame"
                  /\ Len(v.rows) = per
                  /\ \E a \in 0..((slices - 1) * per) :
                        v.rows = SubSeq(distribution.rows, a + 1, a + per)

\* C20: for a 5-column population of M rows, a slice count k and an active
\* index i in [0, k) with floor(M/k) >= 1, the object Beam.objet returns
\* holds exactly the floor(M/k) rows of slice i, in order, each as
\* (Y, T, Z, P, 0, D+1, 1); when the active slice is None (nothing stored,
\* or no row selected) it holds exactly the one particle
\* (0, 0, 0, 0, 0, 1, 1). Every read answers so, however many reads of
\* Beam.objet came before: the particles of earlier reads are not kept.
C20_ObjetHoldsActiveSlice ==
    ret.op = "objet" =>
        /\ (distribution.kind = "DataFrame" /\ Len(distribution.cols) = 5
              /\ slices >= 1 /\ SLICE \in 0..(slices - 1)
              /\ Len(distribution.rows) \div slices >= 1) =>
              ret.out = ndarray(7,
                  [j \in 1..(Len(distribution.rows) \div slices) |->
                      LET r == Window(distribution.rows, slices, SLICE)[j]
                      IN <<r[1], r[2], r[3], r[4], 0, r[5] + 1, 1>>])
        /\ (distribution.kind = "None"
              \/ (Len(distribution.cols) = 5 /\ slices >= 1 /\ CurrentRows = <<>>)) =>
              ret.out = ndarray(7, << <<0, 0, 0, 0, 0, 1, 1>> >>)

C20_Witness ==
    /\ ret.op = "objet"
    /\ distribution = DataFrame(CoordNames, [j \in 1..MaxFileRows |-> FileRow5(j)])
    /\ slices = 2 /\ SLICE = 1
    /\ ret.out.rows = << <<3, 13, 23, 33, 0, 3, 1>>, <<4, 14, 24, 34, 0, 4, 1>> >>

\* the rendering of the object that holds the rows selected now, or the
\* default particle when there are none
CurrentRendering ==
    IF distribution.kind = "None" \/ CurrentRows = <<>>
    THEN Str(1, << <<0, 0, 0, 0, 0, 1, 1>> >>)
    ELSE Str(Len(CurrentRows),
             [i \in 1..Len(CurrentRows) |->
                 LET r == CurrentRows[i]
                 IN <<r[1], r[2], r[3], r[4], 0, r[5] + 1, 1>>])

\* C21: with REFERENCE = 1, str(beam) describes an object of exactly one
\* particle, the default one (0, 0, 0, 0, 0, 1, 1), whatever the stored
\* distribution, the slice count and the active index are; with
\* REFERENCE # 1 it describes the particles of the active slice; and the
\* rendering leaves the stored distribution as it was.
C21_ReferenceRendering ==
    [][ret'.op = "str" =>
          /\ distribution' = distribution
          /\ REFERENCE' = 1 => ret'.out = Str(1, << <<0, 0, 0, 0, 0, 1, 1>> >>)
          /\ REFERENCE' # 1 =>
                /\ ~IsRaise(ret'.out)
                /\ slices' >= 1 => ret'.out = CurrentRendering']_vars

\* The same for the Beams whose active slice can be evaluated: nothing
\* stored, or a population of 5 columns and a slice count k >= 1.
ReferenceRendering5 ==
    [][(ret'.op = "str"
          /\ (distribution.kind = "None"
                \/ (Len(distribution.cols) = 5 /\ slices >= 1))) =>
          /\ distribution' = distribution
          /\ REFERENCE' = 1 => ret'.out = Str(1, << <<0, 0, 0, 0, 0, 1, 1>> >>)
          /\ REFERENCE' # 1 => ret'.out = CurrentRendering']_vars

====
